---- MODULE Spec2Model ----
(***************************************************************************)
(* Model of the time-series anomaly pipeline: the loader                   *)
(* (src/src/data/loader.py), the metric functions                          *)
(* (src/src/analysis/metrics.py) and the detector                          *)
(* (src/src/analysis/anomaly.py).                                          *)
(***************************************************************************)
EXTENDS Integers, Sequences, FiniteSets, TLC

VARIABLES pc, linhas, dados, df_entrada, df_metricas, sigma_threshold, deteccao,
          serie, nlags, cv, autocorr, metricas, etapas, saida

vars == <<pc, linhas, dados, df_entrada, df_metricas, sigma_threshold, deteccao,
          serie, nlags, cv, autocorr, metricas, etapas, saida>>

(***************************************************************************)
(* Bounds of the model.                                                    *)
(***************************************************************************)
MaxLines == 3
MaxSpan == 2
FirstMinute == 59
MaxOps == 3
MaxCv == 1
MaxLen == 4
MaxVal == 2
MaxNlags == 2
SqrtScale == 100
MaxPipeLines == 3

(***************************************************************************)
(* Generic helpers on sequences.                                           *)
(***************************************************************************)
SeqsUpTo(S, n) == UNION {[1..k -> S] : k \in 0..n}

Range(s) == {s[i] : i \in 1..Len(s)}

\* pandas Series.unique(): the distinct values in order of first appearance
RECURSIVE Unique(_)
Unique(s) ==
    IF s = <<>> THEN <<>>
    ELSE LET r == Unique(SubSeq(s, 1, Len(s) - 1))
             x == s[Len(s)]
         IN IF x \in Range(r) THEN r ELSE Append(r, x)

SetMin(S) == CHOOSE x \in S : \A y \in S : x <= y
SetMax(S) == CHOOSE x \in S : \A y \in S : x >= y

(***************************************************************************)
(* Floating point values.  A value is a fraction n/d in lowest terms with  *)
(* d > 0, or one of the IEEE special values: d = 0 with n = 1 (+inf),      *)
(* n = -1 (-inf) or n = 0 (NaN).  Arithmetic on finite values is exact;    *)
(* the special values follow IEEE 754 as numpy applies it.                 *)
(***************************************************************************)
RECURSIVE GCD(_, _)
GCD(a, b) == IF b = 0 THEN a ELSE GCD(b, a % b)

Abs(x) == IF x < 0 THEN -x ELSE x
Sgn(x) == IF x < 0 THEN -1 ELSE IF x > 0 THEN 1 ELSE 0

Frac(n, d) ==
    LET g == GCD(Abs(n), Abs(d))
    IN IF d = 0 THEN [n |-> Sgn(n), d |-> 0]
       ELSE [n |-> (Sgn(d) * n) \div g, d |-> Abs(d) \div g]

I(k) == [n |-> k, d |-> 1]
Inf == [n |-> 1, d |-> 0]
NaN == [n |-> 0, d |-> 0]

IsNaN(x) == x.d = 0 /\ x.n = 0
IsInf(x) == x.d = 0 /\ x.n # 0
IsFinite(x) == x.d > 0

\* the product of two fractions, each numerator reduced against the other
\* denominator before multiplying
MulFinite(a, b) ==
    LET g == GCD(Abs(a.n), b.d)
        h == GCD(Abs(b.n), a.d)
    IN Frac((a.n \div g) * (b.n \div h), (a.d \div h) * (b.d \div g))

FMul(a, b) ==
    IF IsNaN(a) \/ IsNaN(b) THEN NaN
    ELSE IF IsInf(a) \/ IsInf(b)
         THEN (IF a.n = 0 \/ b.n = 0 THEN NaN ELSE [n |-> Sgn(a.n) * Sgn(b.n), d |-> 0])
    ELSE MulFinite(a, b)

\* the sum of two fractions over the least common denominator
FAdd(a, b) ==
    IF IsNaN(a) \/ IsNaN(b) THEN NaN
    ELSE IF IsInf(a) /\ IsInf(b) THEN (IF a.n = b.n THEN a ELSE NaN)
    ELSE IF IsInf(a) THEN a
    ELSE IF IsInf(b) THEN b
    ELSE LET g == GCD(a.d, b.d)
         IN Frac(a.n * (b.d \div g) + b.n * (a.d \div g), (a.d \div g) * b.d)

FNeg(a) == [n |-> -a.n, d |-> a.d]
FSub(a, b) == FAdd(a, FNeg(b))
FAbs(a) == [n |-> Abs(a.n), d |-> a.d]

\* a / b; a division by zero gives the signed infinity or NaN (numpy)
FDiv(a, b) ==
    IF IsNaN(a) \/ IsNaN(b) THEN NaN
    ELSE IF IsInf(a) /\ IsInf(b) THEN NaN
    ELSE IF IsInf(b) THEN I(0)
    ELSE IF IsInf(a) THEN [n |-> a.n * (IF b.n < 0 THEN -1 ELSE 1), d |-> 0]
    ELSE IF b.n = 0 THEN [n |-> Sgn(a.n), d |-> 0]
    ELSE MulFinite(a, [n |-> Sgn(b.n) * b.d, d |-> Abs(b.n)])

\* an/ad > bn/bd for positive denominators, by the integer parts and then the
\* remainders, so that no product is formed
RECURSIVE GreaterFinite(_, _, _, _)
GreaterFinite(an, ad, bn, bd) ==
    IF an \div ad # bn \div bd THEN an \div ad > bn \div bd
    ELSE IF an % ad = 0 THEN FALSE
    ELSE IF bn % bd = 0 THEN TRUE
    ELSE GreaterFinite(bd, bn % bd, ad, an % ad)

\* a > b for values that are not NaN
Greater(a, b) ==
    IF a.d = 0 \/ b.d = 0 THEN a.n * b.d > b.n * a.d
    ELSE GreaterFinite(a.n, a.d, b.n, b.d)

\* comparisons; every comparison with NaN is false
FGt(a, b) == ~IsNaN(a) /\ ~IsNaN(b) /\ Greater(a, b)
FGe(a, b) == ~IsNaN(a) /\ ~IsNaN(b) /\ (a = b \/ Greater(a, b))
FEq(a, b) == ~IsNaN(a) /\ ~IsNaN(b) /\ a = b

(***************************************************************************)
(* The export file.  A line is modelled by what extrair_dados reads of it: *)
(* whether it starts with the prefix 'Insert into EXPORT_TABLE', the       *)
(* number of comma separated fields left after the decoration is removed,  *)
(* and the text of the first three fields.  The text of a MINUTO field is  *)
(* a 'YYYY-MM-DD HH:MM' literal (k = "fmt", hour h, minute m), one of the  *)
(* null literals pandas reads as NaT (k = "nat"), or anything else         *)
(* (k = "bad").                                                            *)
(***************************************************************************)
NaT == -1

TsFmt(t) == [k |-> "fmt", h |-> t \div 60, m |-> t % 60]
TsNat == [k |-> "nat", h |-> 0, m |-> 0]
TsBad == [k |-> "bad", h |-> 0, m |-> 0]

Operadores == {"A", "B"}
QtdValidas == {"4", "7"}
QtdInvalida == "x"

ValidTs == {TsFmt(t) : t \in FirstMinute..(FirstMinute + MaxSpan)}

Linha(pre, nf, ts, op, qtd) ==
    [pre |-> pre, nf |-> nf, ts |-> ts, op |-> op, qtd |-> qtd]

LinhasPossiveis ==
    {Linha(TRUE, 3, ts, op, q) : ts \in ValidTs, op \in Operadores, q \in QtdValidas}
    \cup {Linha(TRUE, 3, TsBad, "A", "4"), Linha(TRUE, 3, TsFmt(FirstMinute), "A", QtdInvalida),
          Linha(TRUE, 3, TsNat, "B", "7")}
    \cup {Linha(TRUE, 2, TsFmt(FirstMinute), "A", "4"), Linha(TRUE, 4, TsFmt(FirstMinute), "B", "7")}
    \cup {Linha(FALSE, 3, TsFmt(FirstMinute), "A", "4")}

\* pd.to_datetime(..., format='%Y-%m-%d %H:%M') on one literal
ToDatetime(ts) == IF ts.k = "fmt" THEN ts.h * 60 + ts.m ELSE NaT
TsRaises(ts) == ts.k = "bad"

\* astype(int) on one QTD text
ParseInt(q) == CASE q = "4" -> 4 [] q = "7" -> 7 [] q = "-4" -> -4 [] OTHER -> 0
IntRaises(q) == q \notin {"4", "7", "0", "-4"}

(***************************************************************************)
(* extrair_dados                                                           *)
(***************************************************************************)
EmptyFrame == [status |-> "empty", rows |-> <<>>]
Raised == [status |-> "raise", rows |-> <<>>]

StartsWithPrefix(l) == l.pre

\* a field check that lets longer lines through
HasAtLeastThreeFields(l) == l.nf >= 3

HasThreeFields(l) == l.nf = 3

ConversionFails(proc) ==
    \E i \in 1..Len(proc) : TsRaises(proc[i].ts) \/ IntRaises(proc[i].qtd)

Converted(proc) ==
    [i \in 1..Len(proc) |->
        [MINUTO |-> ToDatetime(proc[i].ts), CD_OPR |-> proc[i].op,
         QTD |-> ParseInt(proc[i].qtd)]]

\* a date range that leaves out its end point
DateRangeOpenEnd(lo, hi) == [i \in 1..(hi - lo) |-> lo + i - 1]

\* pd.date_range(start, end, freq='T')
DateRange(lo, hi) == [i \in 1..(hi - lo + 1) |-> lo + i - 1]

\* pd.MultiIndex.from_product([minutes, operators])
FromProduct(ms, ops) ==
    [i \in 1..(Len(ms) * Len(ops)) |->
        [MINUTO |-> ms[((i - 1) \div Len(ops)) + 1],
         CD_OPR |-> ops[((i - 1) % Len(ops)) + 1]]]

IndexOf(df) == [i \in 1..Len(df) |-> [MINUTO |-> df[i].MINUTO, CD_OPR |-> df[i].CD_OPR]]

IsUnique(s) == \A i, j \in 1..Len(s) : s[i] = s[j] => i = j

\* reindex + fillna(0): the QTD of the row labelled k, 0 when there is none
Reindexed(df, idx) ==
    [i \in 1..Len(idx) |->
        LET hits == {j \in 1..Len(df) :
                        df[j].MINUTO = idx[i].MINUTO /\ df[j].CD_OPR = idx[i].CD_OPR}
        IN [MINUTO |-> idx[i].MINUTO, CD_OPR |-> idx[i].CD_OPR,
            QTD |-> IF hits = {} THEN 0 ELSE df[CHOOSE j \in hits : TRUE].QTD]]

Densify(df) ==
    LET cd_opr_unicos == Unique([i \in 1..Len(df) |-> df[i].CD_OPR])
        times == {df[i].MINUTO : i \in 1..Len(df)} \ {NaT}
    IN IF times = {} THEN Raised
       ELSE LET todos_minutos == DateRange(SetMin(times), SetMax(times))
                novo_indice == FromProduct(todos_minutos, cd_opr_unicos)
            IN IF ~IsUnique(IndexOf(df)) THEN Raised
               ELSE [status |-> "ok", rows |-> Reindexed(df, novo_indice)]

ExtrairDados(ls) ==
    LET dados_filtrados == SelectSeq(ls, StartsWithPrefix)
        dados_processados == SelectSeq(dados_filtrados, HasThreeFields)
    IN IF dados_filtrados = <<>> THEN EmptyFrame
       ELSE IF dados_processados = <<>> THEN EmptyFrame
       ELSE IF ConversionFails(dados_processados) THEN EmptyFrame
       ELSE Densify(Converted(dados_processados))

(***************************************************************************)
(* Idle values of the variables a specification does not use.              *)
(***************************************************************************)
NoFrame == [status |-> "none", rows |-> <<>>]

(***************************************************************************)
(* The loader on its own: any file of at most MaxLines lines.              *)
(***************************************************************************)
InitLoader ==
    /\ pc = "load"
    /\ linhas \in SeqsUpTo(LinhasPossiveis, MaxLines)
    /\ dados = NoFrame
    /\ df_entrada = <<>>
    /\ df_metricas = <<>>
    /\ sigma_threshold = 0
    /\ deteccao = <<>>
    /\ serie = <<>>
    /\ nlags = 0
    /\ cv = <<>>
    /\ autocorr = <<>>
    /\ metricas = NoFrame
    /\ etapas = <<>>
    /\ saida = <<>>

Load ==
    /\ pc = "load"
    /\ dados' = ExtrairDados(linhas)
    /\ pc' = "loaded"
    /\ UNCHANGED <<linhas, df_entrada, df_metricas, sigma_threshold, deteccao, serie, nlags, cv,
                   autocorr, metricas, etapas, saida>>

NextLoader == Load

SpecLoader == InitLoader /\ [][NextLoader]_vars

(***************************************************************************)
(* calcula_mad and the medians it rests on.                                *)
(***************************************************************************)
RECURSIVE SortAsc(_)
SortAsc(s) ==
    IF Len(s) <= 1 THEN s
    ELSE LET r == SortAsc(SubSeq(s, 1, Len(s) - 1))
             x == s[Len(s)]
             k == Cardinality({i \in 1..Len(r) : ~FGt(r[i], x)})
         IN SubSeq(r, 1, k) \o <<x>> \o SubSeq(r, k + 1, Len(r))

\* the median of a non-empty sequence: the middle value, or the mean of the
\* two middle values
MiddleOf(t) ==
    IF Len(t) % 2 = 1 THEN t[(Len(t) + 1) \div 2]
    ELSE FDiv(FAdd(t[Len(t) \div 2], t[(Len(t) \div 2) + 1]), I(2))

Median(s) == MiddleOf(SortAsc(s))

\* the normal-consistency constant of statsmodels.robust.mad, norm.ppf(3/4)
MadC == Frac(6745, 10000)

\* robust.mad(a): median(|a - median(a)| / c)
AbsDeviations(s, center) == [i \in 1..Len(s) |-> FDiv(FAbs(FSub(s[i], center)), MadC)]

CalculaMad(s) == Median(AbsDeviations(s, Median(s)))

(***************************************************************************)
(* detectar_anomalias                                                      *)
(***************************************************************************)
ScoreOf(df) == [i \in 1..Len(df) |-> df[i].score_anomaly]

\* df_metricas['score_anomaly'] = df_metricas['cv'] * df_metricas['autocorr_max_diff']
Scored(df) ==
    [i \in 1..Len(df) |->
        [CD_OPR |-> df[i].CD_OPR, autocorr_max_diff |-> df[i].autocorr_max_diff,
         autocorr_lag |-> df[i].autocorr_lag, cv |-> df[i].cv,
         score_anomaly |-> FMul(df[i].cv, df[i].autocorr_max_diff)]]

InfToNaN(x) == IF IsInf(x) THEN NaN ELSE x

\* a replace that leaves the infinite values in place
ReplaceNothing(df) == df

\* df_metricas.replace([np.inf, -np.inf], np.nan, inplace=True)
ReplaceInf(df) ==
    [i \in 1..Len(df) |->
        [df[i] EXCEPT !.cv = InfToNaN(@), !.autocorr_max_diff = InfToNaN(@),
                      !.score_anomaly = InfToNaN(@)]]

\* df_metricas.dropna(subset=['score_anomaly'], inplace=True)
DropNa(df) == LET HasScore(r) == ~IsNaN(r.score_anomaly) IN SelectSeq(df, HasScore)

\* a zero test that never finds the MAD to be zero
MadNeverZero(mad) == FALSE

\* mad == 0
MadIsZero(mad) == FEq(mad, I(0))

\* a classification that also flags a score equal to the limit
AboveOrAtLimit(score, limite) == FGe(score, limite)

\* df_metricas['score_anomaly'] > limite_superior
AboveLimit(score, limite) == FGt(score, limite)

\* the frame with the column 'anormal' set to the given flags
WithAnormal(df, flags) ==
    [i \in 1..Len(df) |->
        [CD_OPR |-> df[i].CD_OPR, autocorr_max_diff |-> df[i].autocorr_max_diff,
         autocorr_lag |-> df[i].autocorr_lag, cv |-> df[i].cv,
         score_anomaly |-> df[i].score_anomaly, anormal |-> flags[i]]]

\* a sort in ascending order of score
RECURSIVE SortValuesAsc(_)
SortValuesAsc(df) ==
    IF Len(df) <= 1 THEN df
    ELSE LET r == SortValuesAsc(SubSeq(df, 1, Len(df) - 1))
             x == df[Len(df)]
             k == Cardinality({i \in 1..Len(r) : ~FGt(r[i].score_anomaly, x.score_anomaly)})
         IN SubSeq(r, 1, k) \o <<x>> \o SubSeq(r, k + 1, Len(r))

\* df_metricas.sort_values('score_anomaly', ascending=False); rows of equal
\* score keep their order
RECURSIVE SortValues(_)
SortValues(df) ==
    IF Len(df) <= 1 THEN df
    ELSE LET r == SortValues(SubSeq(df, 1, Len(df) - 1))
             x == df[Len(df)]
             k == Cardinality({i \in 1..Len(r) : ~FGt(x.score_anomaly, r[i].score_anomaly)})
         IN SubSeq(r, 1, k) \o <<x>> \o SubSeq(r, k + 1, Len(r))

\* limite_superior: the median when the MAD is zero, else mediana + k * mad
LimiteSuperior(mediana, mad, k) ==
    IF MadIsZero(mad) THEN mediana ELSE FAdd(mediana, FMul(k, mad))

\* the column 'anormal': all False when the MAD is zero, else score > limite
Flagged(valid, mad, limite) ==
    IF MadIsZero(mad) THEN WithAnormal(valid, [i \in 1..Len(valid) |-> FALSE])
    ELSE WithAnormal(valid, [i \in 1..Len(valid) |->
                                AboveLimit(valid[i].score_anomaly, limite)])

\* the result for the flagged frame: the frame sorted, and the statistics
Classified(flagged, mediana, mad, limite) ==
    [frame |-> flagged, df |-> SortValues(flagged), mediana |-> mediana, mad |-> mad,
     limite_superior |-> limite]

\* the result for the rows that have a valid score
DetectValid(valid, mediana, mad, k) ==
    Classified(Flagged(valid, mad, LimiteSuperior(mediana, mad, k)), mediana, mad,
               LimiteSuperior(mediana, mad, k))

\* the result once the invalid scores are dropped
DetectScored(valid, k) ==
    IF valid = <<>>
    THEN [frame |-> valid, df |-> valid, mediana |-> NaN, mad |-> NaN,
          limite_superior |-> NaN]
    ELSE DetectValid(valid, Median(ScoreOf(valid)), CalculaMad(ScoreOf(valid)), k)

\* the frame df_metricas as the call leaves it (it is changed in place), and
\* the three statistics
Detection(df, k) ==
    IF df = <<>>
    THEN [frame |-> df, df |-> <<>>, mediana |-> NaN, mad |-> NaN, limite_superior |-> NaN]
    ELSE DetectScored(DropNa(ReplaceInf(Scored(df))), k)

\* the tuple (df_metricas, mediana, mad, limite_superior) of a detection
Returned(r) ==
    [df |-> r.df, mediana |-> r.mediana, mad |-> r.mad,
     limite_superior |-> r.limite_superior]

\* the value detectar_anomalias returns
DetectarAnomalias(df, k) == Returned(Detection(df, k))

(***************************************************************************)
(* The detector on its own: any metric table of at most MaxOps operators   *)
(* and any threshold multiplier.                                           *)
(***************************************************************************)
OpNames == <<"A", "B", "C", "D", "E">>

CvValues == {I(50 * i) : i \in 0..MaxCv} \cup {Inf}
AcValues == {Frac(i, 2) : i \in 0..2}
\* the default multiplier of detectar_anomalias
DefaultSigma == 3

SigmaValues == {I(-1), I(0), I(1), I(DefaultSigma)}

\* the metric table of n operators with the (cv, autocorr_max_diff) pairs m
MetricTable(n, m) ==
    [i \in 1..n |->
        [CD_OPR |-> OpNames[i], autocorr_max_diff |-> m[i][2],
         autocorr_lag |-> IF m[i][2] = I(0) THEN 0 ELSE 1, cv |-> m[i][1]]]

InitDetector ==
    /\ pc = "detect"
    /\ linhas = <<>>
    /\ dados = NoFrame
    /\ \E n \in 0..MaxOps :
           \E m \in [1..n -> CvValues \X AcValues] : df_entrada = MetricTable(n, m)
    /\ df_metricas = df_entrada
    /\ sigma_threshold \in SigmaValues
    /\ deteccao = <<>>
    /\ serie = <<>>
    /\ nlags = 0
    /\ cv = <<>>
    /\ autocorr = <<>>
    /\ metricas = NoFrame
    /\ etapas = <<>>
    /\ saida = <<>>

Detect ==
    /\ pc = "detect"
    /\ deteccao' = DetectarAnomalias(df_metricas, sigma_threshold)
    /\ df_metricas' = Detection(df_metricas, sigma_threshold).frame
    /\ pc' = "detected"
    /\ UNCHANGED <<linhas, dados, df_entrada, sigma_threshold, serie, nlags, cv, autocorr,
                   metricas, etapas, saida>>

NextDetector == Detect

SpecDetector == InitDetector /\ [][NextDetector]_vars

(***************************************************************************)
(* calcula_cv and calcula_autocorr_diff.  A series is a sequence of        *)
(* integer counts, as the loader produces them.                            *)
(***************************************************************************)
RECURSIVE FSum(_)
FSum(s) == IF s = <<>> THEN I(0) ELSE FAdd(FSum(SubSeq(s, 1, Len(s) - 1)), s[Len(s)])

AsFloats(s) == [i \in 1..Len(s) |-> I(s[i])]

\* the mean of a sequence of floats; 0/0 = NaN for the empty one
FMean(s) == FDiv(FSum(s), I(Len(s)))

\* the least power of two whose square exceeds m
RECURSIVE SqrtCeiling(_, _)
SqrtCeiling(h, m) == IF h * h > m THEN h ELSE SqrtCeiling(2 * h, m)

\* the largest r with r * r <= m, given lo * lo <= m < hi * hi
RECURSIVE ISqrtIn(_, _, _)
ISqrtIn(lo, hi, m) ==
    IF hi - lo <= 1 THEN lo
    ELSE LET mid == (lo + hi) \div 2
         IN IF mid * mid <= m THEN ISqrtIn(mid, hi, m) ELSE ISqrtIn(lo, mid, m)

\* the square root, rounded down to a multiple of 1 / SqrtScale (the rounding
\* of the floating point square root, at the precision of the model)
FSqrt(x) ==
    IF IsNaN(x) \/ x.n < 0 THEN NaN
    ELSE IF IsInf(x) THEN Inf
    ELSE LET m == (x.n * SqrtScale * SqrtScale) \div x.d
         IN Frac(ISqrtIn(0, SqrtCeiling(1, m), m), SqrtScale)

SquaredDeviations(s, mean) ==
    [i \in 1..Len(s) |-> FMul(FSub(s[i], mean), FSub(s[i], mean))]

\* the sample standard deviation (ddof = 1)
FStdSample(s) == FSqrt(FDiv(FSum(SquaredDeviations(s, FMean(s))), I(Len(s) - 1)))

\* ndarray.std(): the population standard deviation (ddof = 0)
FStd(s) == FSqrt(FMean(SquaredDeviations(s, FMean(s))))

\* np.inf for a zero mean, else std / mean * 100
CvOf(mean, std) ==
    IF FEq(mean, I(0)) THEN Inf
    ELSE FMul(FDiv(std, mean), I(100))

CalculaCv(s) == CvOf(FMean(AsFloats(s)), FStd(AsFloats(s)))

\* np.diff
Diff(s) == [i \in 1..(Len(s) - 1) |-> s[i + 1] - s[i]]

\* a test that only finds a series of equal values constant
AllZero(d) == \A i \in 1..Len(d) : d[i] = 0

\* np.all(diff_serie == diff_serie[0])
AllEqualFirst(d) == \A i \in 1..Len(d) : d[i] = d[1]

\* statsmodels acovf(x, adjusted=False, demean=True, fft=False) at lag k
Demeaned(x, mean) == [i \in 1..Len(x) |-> FSub(x[i], mean)] \o <<>>

LaggedProducts(xo, k) == [i \in 1..(Len(xo) - k) |-> FMul(xo[i], xo[i + k])]

Acovf(x, k) == FDiv(FSum(LaggedProducts(Demeaned(x, FMean(x)), k)), I(Len(x)))

\* statsmodels acf(x, nlags, fft=False): lags 0..nlags, as a sequence whose
\* element k + 1 is the autocorrelation at lag k
Normalised(avf) == [j \in 1..Len(avf) |-> FDiv(avf[j], avf[1])] \o <<>>

Acf(x, n) == Normalised([j \in 1..(n + 1) |-> Acovf(x, j - 1)] \o <<>>)

\* np.argmax: the first NaN if there is one, else the first largest value
ArgMax(a) ==
    LET nans == {i \in 1..Len(a) : IsNaN(a[i])}
        tops == {i \in 1..Len(a) : \A j \in 1..Len(a) : FGe(a[i], a[j])}
    IN IF nans # {} THEN SetMin(nans) ELSE SetMin(tops)

NoAutocorr == [max |-> I(0), lag |-> 0]

Min(a, b) == IF a < b THEN a ELSE b

\* the largest absolute autocorrelation and its lag
MaxAutocorr(acf_abs) ==
    IF Len(acf_abs) = 0 THEN NoAutocorr
    ELSE [max |-> acf_abs[ArgMax(acf_abs)], lag |-> ArgMax(acf_abs)]

\* np.abs(acf_diff[1:])
AbsFromLagOne(acf_diff) ==
    [i \in 1..(Len(acf_diff) - 1) |-> FAbs(acf_diff[i + 1])] \o <<>>

\* the result for the differenced series
AutocorrOfDiff(diff_serie, n) ==
    IF Len(diff_serie) < 2 \/ AllEqualFirst(diff_serie) THEN NoAutocorr
    ELSE MaxAutocorr(AbsFromLagOne(Acf(AsFloats(diff_serie),
                                       Min(n, Len(diff_serie) - 1))))

CalculaAutocorrDiff(s, n) ==
    IF Len(s) < 2 THEN NoAutocorr
    ELSE AutocorrOfDiff(Diff(s), n)

(***************************************************************************)
(* The metric functions on their own: any series of at most MaxLen counts  *)
(* in -1..MaxVal and any number of lags up to MaxNlags, computed in the    *)
(* order of calcular_metricas_por_processo.                                *)
(***************************************************************************)
InitMetrics ==
    /\ pc = "autocorr"
    /\ linhas = <<>>
    /\ dados = NoFrame
    /\ df_entrada = <<>>
    /\ df_metricas = <<>>
    /\ sigma_threshold = 0
    /\ deteccao = <<>>
    /\ serie \in SeqsUpTo((-1)..MaxVal, MaxLen)
    /\ nlags \in 0..MaxNlags
    /\ cv = NaN
    /\ autocorr = NoAutocorr
    /\ metricas = NoFrame
    /\ etapas = <<>>
    /\ saida = <<>>

CalcAutocorr ==
    /\ pc = "autocorr"
    /\ autocorr' = CalculaAutocorrDiff(serie, nlags)
    /\ pc' = "cv"
    /\ UNCHANGED <<linhas, dados, df_entrada, df_metricas, sigma_threshold, deteccao,
                   serie, nlags, cv, metricas, etapas, saida>>

CalcCv ==
    /\ pc = "cv"
    /\ cv' = CalculaCv(serie)
    /\ pc' = "measured"
    /\ UNCHANGED <<linhas, dados, df_entrada, df_metricas, sigma_threshold, deteccao,
                   serie, nlags, autocorr, metricas, etapas, saida>>

NextMetrics == CalcAutocorr \/ CalcCv

SpecMetrics == InitMetrics /\ [][NextMetrics]_vars

(***************************************************************************)
(* calcular_metricas_por_processo                                          *)
(***************************************************************************)
\* the minimum number of observations of a series
MinLen == 10

\* the default nlags of calcula_autocorr_diff
DefaultNlags == 360

\* the operator ids in ascending order, the order of groupby's keys
OperadoresOrdenados == <<"A", "B">>

\* the rows of a frame in ascending order of MINUTO; rows of the same minute
\* keep their order
RECURSIVE SortByMinuto(_)
SortByMinuto(rows) ==
    IF Len(rows) <= 1 THEN rows
    ELSE LET r == SortByMinuto(SubSeq(rows, 1, Len(rows) - 1))
             x == rows[Len(rows)]
             k == Cardinality({i \in 1..Len(r) : r[i].MINUTO <= x.MINUTO})
         IN SubSeq(r, 1, k) \o <<x>> \o SubSeq(r, k + 1, Len(r))

\* grupo['QTD'].values of the group of one operator
SerieTemporal(rows, op) ==
    LET IsOp(r) == r.CD_OPR = op
        grupo == SortByMinuto(SelectSeq(rows, IsOp))
    IN [i \in 1..Len(grupo) |-> grupo[i].QTD]

\* a length filter that also skips a series of exactly the minimum length
TooShortOrMinimal(s) == Len(s) <= MinLen

\* len(serie_temporal) < 10
TooShort(s) == Len(s) < MinLen

RecordOf(op, ac, cv_value) ==
    [CD_OPR |-> op, autocorr_max_diff |-> ac.max, autocorr_lag |-> ac.lag, cv |-> cv_value]

MetricRecord(op, s) == RecordOf(op, CalculaAutocorrDiff(s, DefaultNlags), CalculaCv(s))

\* the groups in key order, each measured unless its series is too short
RECURSIVE Resultados(_, _)
\* the records so far, with the record of a group unless its series is too
\* short
WithGroup(before, op, s) ==
    IF TooShort(s) THEN before ELSE Append(before, MetricRecord(op, s))

Resultados(rows, ops) ==
    IF ops = <<>> THEN <<>>
    ELSE WithGroup(Resultados(rows, SubSeq(ops, 1, Len(ops) - 1)), ops[Len(ops)],
                   SerieTemporal(rows, ops[Len(ops)]))

\* the value calcular_metricas_por_processo returns for the frame extrair_dados
\* returned; the empty frame has no column CD_OPR to sort by (KeyError)
FrameOf(resultados) ==
    IF resultados = <<>> THEN EmptyFrame
    ELSE [status |-> "ok", rows |-> resultados]

CalcularMetricasPorProcesso(d) ==
    IF d.status # "ok" THEN Raised
    ELSE LET InFrame(op) == \E i \in 1..Len(d.rows) : d.rows[i].CD_OPR = op
         IN FrameOf(Resultados(d.rows, SelectSeq(OperadoresOrdenados, InFrame)))

(***************************************************************************)
(* The input files of the pipeline: at most MaxPipeLines lines, over a     *)
(* span of MinLen minutes, with counts that are positive, zero and         *)
(* negative, a line that fails conversion, a line of two fields and a line *)
(* without the prefix.                                                     *)
(***************************************************************************)
LinhasPipeline ==
    {Linha(TRUE, 3, TsFmt(FirstMinute), "A", "4"),
     Linha(TRUE, 3, TsFmt(FirstMinute + MinLen - 1), "A", "4"),
     Linha(TRUE, 3, TsFmt(FirstMinute), "B", "-4"),
     Linha(TRUE, 3, TsFmt(FirstMinute), "B", "0"),
     Linha(TRUE, 3, TsFmt(FirstMinute + MinLen - 1), "B", "0"),
     Linha(TRUE, 3, TsBad, "A", "4"),
     Linha(TRUE, 2, TsFmt(FirstMinute), "A", "4"),
     Linha(FALSE, 3, TsFmt(FirstMinute), "A", "4")}

(***************************************************************************)
(* The three stages called one on the value the previous one returned,     *)
(* whatever it is.                                                         *)
(***************************************************************************)
InitStages ==
    /\ pc = "extrair"
    /\ linhas \in SeqsUpTo(LinhasPipeline, MaxPipeLines)
    /\ dados = NoFrame
    /\ df_entrada = <<>>
    /\ df_metricas = <<>>
    /\ sigma_threshold = I(DefaultSigma)
    /\ deteccao = <<>>
    /\ serie = <<>>
    /\ nlags = 0
    /\ cv = <<>>
    /\ autocorr = <<>>
    /\ metricas = NoFrame
    /\ etapas = <<>>
    /\ saida = <<>>

StageExtrair ==
    /\ pc = "extrair"
    /\ dados' = ExtrairDados(linhas)
    /\ pc' = IF dados'.status = "raise" THEN "raised" ELSE "metricas"
    /\ UNCHANGED <<linhas, df_entrada, df_metricas, sigma_threshold, deteccao, serie, nlags,
                   cv, autocorr, metricas, etapas, saida>>

StageMetricas ==
    /\ pc = "metricas"
    /\ metricas' = CalcularMetricasPorProcesso(dados)
    /\ pc' = IF metricas'.status = "raise" THEN "raised" ELSE "detectar"
    /\ UNCHANGED <<linhas, dados, df_entrada, df_metricas, sigma_threshold, deteccao, serie,
                   nlags, cv, autocorr, etapas, saida>>

StageDetectar ==
    /\ pc = "detectar"
    /\ df_entrada' = metricas.rows
    /\ deteccao' = DetectarAnomalias(metricas.rows, sigma_threshold)
    /\ df_metricas' = Detection(metricas.rows, sigma_threshold).frame
    /\ pc' = "returned"
    /\ UNCHANGED <<linhas, dados, sigma_threshold, serie, nlags, cv, autocorr, metricas,
                   etapas, saida>>

NextStages == StageExtrair \/ StageMetricas \/ StageDetectar

SpecStages == InitStages /\ [][NextStages]_vars

(***************************************************************************)
(* main: load, plot, metrics, detection and save in program order, each    *)
(* followed by its early return.  etapas records the stages that executed  *)
(* and saida the tables written to resultados_anomalias.csv.               *)
(***************************************************************************)
Etapas == <<"load", "plot", "metrics", "detection", "save">>

\* df.empty
IsEmptyFrame(d) == d.rows = <<>>

\* a detection guard that never holds for the empty result of the detector
EmptyWithMedian(d) == d.df = <<>> /\ ~IsNaN(d.mediana)

\* df_anomalias.empty and np.isnan(mediana)
DetectionFailed(d) == d.df = <<>> /\ IsNaN(d.mediana)

InitMain ==
    /\ pc = "load"
    /\ linhas \in SeqsUpTo(LinhasPipeline, MaxPipeLines)
    /\ dados = NoFrame
    /\ df_entrada = <<>>
    /\ df_metricas = <<>>
    /\ sigma_threshold = I(DefaultSigma)
    /\ deteccao = <<>>
    /\ serie = <<>>
    /\ nlags = 0
    /\ cv = <<>>
    /\ autocorr = <<>>
    /\ metricas = NoFrame
    /\ etapas = <<>>
    /\ saida = <<>>

\* dados = extrair_dados(caminho_arquivo); an exception leaves main
MainLoad ==
    /\ pc = "load"
    /\ dados' = ExtrairDados(linhas)
    /\ etapas' = Append(etapas, "load")
    /\ pc' = IF dados'.status = "raise" THEN "raised"
             ELSE IF IsEmptyFrame(dados') THEN "done"
             ELSE "plot"
    /\ UNCHANGED <<linhas, df_entrada, df_metricas, sigma_threshold, deteccao, serie, nlags,
                   cv, autocorr, metricas, saida>>

\* criar_grafico_temporal(dados, ...): writes the figure, returns nothing
MainPlot ==
    /\ pc = "plot"
    /\ etapas' = Append(etapas, "plot")
    /\ pc' = "metrics"
    /\ UNCHANGED <<linhas, dados, df_entrada, df_metricas, sigma_threshold, deteccao, serie,
                   nlags, cv, autocorr, metricas, saida>>

\* df_metricas = calcular_metricas_por_processo(dados)
MainMetrics ==
    /\ pc = "metrics"
    /\ metricas' = CalcularMetricasPorProcesso(dados)
    /\ etapas' = Append(etapas, "metrics")
    /\ pc' = IF metricas'.status = "raise" THEN "raised"
             ELSE IF IsEmptyFrame(metricas') THEN "done"
             ELSE "detection"
    /\ UNCHANGED <<linhas, dados, df_entrada, df_metricas, sigma_threshold, deteccao, serie,
                   nlags, cv, autocorr, saida>>

\* df_anomalias, mediana, mad, limite = detectar_anomalias(df_metricas)
MainDetection ==
    /\ pc = "detection"
    /\ df_entrada' = metricas.rows
    /\ deteccao' = DetectarAnomalias(metricas.rows, sigma_threshold)
    /\ df_metricas' = Detection(metricas.rows, sigma_threshold).frame
    /\ etapas' = Append(etapas, "detection")
    /\ pc' = IF DetectionFailed(deteccao') THEN "done" ELSE "save"
    /\ UNCHANGED <<linhas, dados, sigma_threshold, serie, nlags, cv, autocorr, metricas,
                   saida>>

\* df_anomalias.to_csv(...): the write succeeds, or fails and is reported
MainSave ==
    /\ pc = "save"
    /\ etapas' = Append(etapas, "save")
    /\ \/ saida' = Append(saida, deteccao.df)
       \/ saida' = saida
    /\ pc' = "done"
    /\ UNCHANGED <<linhas, dados, df_entrada, df_metricas, sigma_threshold, deteccao, serie,
                   nlags, cv, autocorr, metricas>>

Next == MainLoad \/ MainPlot \/ MainMetrics \/ MainDetection \/ MainSave

Spec == InitMain /\ [][Next]_vars

(***************************************************************************)
(* Properties of the loader.                                               *)
(***************************************************************************)
\* the positions of the lines that pass the prefix filter and the field check
DataLines == {i \in 1..Len(linhas) : linhas[i].pre /\ linhas[i].nf = 3}

\* the positions of the well-formed lines: three fields, a timestamp in the
\* format and an integer count
WellFormed == {i \in DataLines : linhas[i].ts.k = "fmt" /\ linhas[i].qtd \in QtdValidas}

Malformed3 == {i \in DataLines : linhas[i].ts.k # "fmt" \/ linhas[i].qtd \notin QtdValidas}

WrongCount == {i \in 1..Len(linhas) : linhas[i].pre /\ linhas[i].nf # 3}

MinuteOf(i) == linhas[i].ts.h * 60 + linhas[i].ts.m

CountOf(i) == IF linhas[i].qtd = "4" THEN 4 ELSE IF linhas[i].qtd = "7" THEN 7 ELSE 0

DuplicatePair == \E i, j \in WellFormed :
    i < j /\ MinuteOf(i) = MinuteOf(j) /\ linhas[i].op = linhas[j].op

RowsAt(t, o) == {r \in 1..Len(dados.rows) :
                    dados.rows[r].MINUTO = t /\ dados.rows[r].CD_OPR = o}

\* C1: a successful load returns (#operators) x (#minutes of the inclusive
\* global span) rows, one per (minute, operator); a pair present in the input
\* carries its observed count and an absent pair carries 0
C1_DenseGridComplete ==
    (pc = "loaded" /\ dados.status = "ok") =>
        LET ops == {linhas[i].op : i \in DataLines}
            ts == {MinuteOf(i) : i \in WellFormed}
            lo == SetMin(ts)
            hi == SetMax(ts)
        IN /\ Len(dados.rows) = Cardinality(ops) * (hi - lo + 1)
           /\ \A t \in lo..hi, o \in ops :
                /\ Cardinality(RowsAt(t, o)) = 1
                /\ \A r \in RowsAt(t, o) :
                     LET seen == {i \in WellFormed : MinuteOf(i) = t /\ linhas[i].op = o}
                     IN IF seen = {} THEN dados.rows[r].QTD = 0
                        ELSE \A i \in seen : dados.rows[r].QTD = CountOf(i)

\* C1 witness: a grid of two operators over at least two minutes with an
\* observed pair and a zero-filled pair
C1_Witness ==
    /\ pc = "loaded" /\ dados.status = "ok"
    /\ Len(dados.rows) >= 4
    /\ \E r \in 1..Len(dados.rows) : dados.rows[r].QTD = 0
    /\ \E r \in 1..Len(dados.rows) : dados.rows[r].QTD = 7

\* C2: with two valid lines for the same (timestamp, operator) the load still
\* returns the dense grid, the pair's single row carrying the last line's count
C2_LastWriteWins ==
    (pc = "loaded" /\ DataLines # {} /\ Malformed3 = {} /\ DuplicatePair) =>
        /\ dados.status = "ok"
        /\ \A i \in WellFormed :
             LET last == SetMax({j \in WellFormed : MinuteOf(j) = MinuteOf(i)
                                                     /\ linhas[j].op = linhas[i].op})
             IN /\ Cardinality(RowsAt(MinuteOf(i), linhas[i].op)) = 1
                /\ \A r \in RowsAt(MinuteOf(i), linhas[i].op) :
                     dados.rows[r].QTD = CountOf(last)

\* C3 as stated: a malformed line (field count, timestamp or count) is dropped
\* and the well-formed lines are still loaded (stated for inputs whose
\* well-formed lines have distinct pairs)
C3_MalformedNeverFatal ==
    (pc = "loaded" /\ WellFormed # {} /\ ~DuplicatePair) =>
        /\ dados.status = "ok"
        /\ \A i \in WellFormed : \E r \in RowsAt(MinuteOf(i), linhas[i].op) :
             dados.rows[r].QTD = CountOf(i)

NotWrongCount(l) == ~(l.pre /\ l.nf # 3)

\* C3 amended: a line with the wrong field count is dropped and is never fatal:
\* the outcome is the one the other lines alone produce, and a returned table
\* holds every well-formed line with its count
C3_WrongFieldCountDropped ==
    pc = "loaded" =>
        /\ dados = ExtrairDados(SelectSeq(linhas, NotWrongCount))
        /\ dados.status = "ok" =>
             \A i \in WellFormed : \E r \in RowsAt(MinuteOf(i), linhas[i].op) :
                 dados.rows[r].QTD = CountOf(i)
        /\ (WellFormed # {} /\ Malformed3 = {} /\ ~DuplicatePair) => dados.status = "ok"

\* C3 witness: a table is returned from a file holding lines of 2 and of 4 fields
C3_Witness ==
    /\ pc = "loaded" /\ dados.status = "ok"
    /\ \E i, j \in WrongCount : linhas[i].nf = 2 /\ linhas[j].nf = 4
    /\ WellFormed # {}

\* C4: a data line whose timestamp is not in the format or whose count is not an
\* integer makes the load return the empty table, and nothing is raised
C4_BatchFailure ==
    (pc = "loaded" /\ Malformed3 # {}) => dados = EmptyFrame

(***************************************************************************)
(* Properties of the detector.                                             *)
(***************************************************************************)
Detected == pc = "detected"

OutRows == 1..Len(deteccao.df)

\* the score of row i of the table as it was passed in
InputScore(i) == FMul(df_entrada[i].cv, df_entrada[i].autocorr_max_diff)

FiniteInputs == {i \in 1..Len(df_entrada) : IsFinite(InputScore(i))}

\* the finite scores of the table passed in, in row order
RECURSIVE FiniteScoresUpTo(_)
FiniteScoresUpTo(n) ==
    IF n = 0 THEN <<>>
    ELSE IF n \in FiniteInputs THEN Append(FiniteScoresUpTo(n - 1), InputScore(n))
    ELSE FiniteScoresUpTo(n - 1)

FiniteScores == FiniteScoresUpTo(Len(df_entrada))

\* C5 as stated: in every non-empty returned table a record is flagged exactly
\* when its score is strictly greater than the reported upper limit
C5_FlagIffAboveLimit ==
    (Detected /\ deteccao.df # <<>>) =>
        \A r \in OutRows :
            deteccao.df[r].anormal <=>
                FGt(deteccao.df[r].score_anomaly, deteccao.limite_superior)

\* C5 amended: when the MAD is not 0 the limit is median + k x MAD and a record
\* is flagged exactly when its score is strictly greater than it; when the MAD
\* is 0 no record is flagged, whatever its score
C5_FlagIffAboveLimitUnlessMadZero ==
    (Detected /\ deteccao.df # <<>>) =>
        IF deteccao.mad = I(0)
        THEN \A r \in OutRows : ~deteccao.df[r].anormal
        ELSE /\ deteccao.limite_superior =
                    FAdd(deteccao.mediana, FMul(sigma_threshold, deteccao.mad))
             /\ \A r \in OutRows :
                    deteccao.df[r].anormal <=>
                        FGt(deteccao.df[r].score_anomaly, deteccao.limite_superior)

\* C5 witness: a non-zero MAD, a flagged record, an unflagged record and a
\* record whose score equals the limit
C5_Witness ==
    /\ Detected /\ deteccao.df # <<>> /\ deteccao.mad # I(0)
    /\ \E r \in OutRows : deteccao.df[r].anormal
    /\ \E r \in OutRows : deteccao.df[r].score_anomaly = deteccao.limite_superior
    /\ \E r \in OutRows : FGt(deteccao.limite_superior, deteccao.df[r].score_anomaly)

\* C6: when the MAD of the valid scores is 0, in particular when all the valid
\* scores are identical, no record is flagged and the upper limit is the median
C6_MadZeroFlagsNothing ==
    Detected =>
        /\ (deteccao.df # <<>> /\ deteccao.mad = I(0)) =>
              /\ \A r \in OutRows : ~deteccao.df[r].anormal
              /\ deteccao.limite_superior = deteccao.mediana
        /\ (FiniteInputs # {} /\ \A i, j \in FiniteInputs : InputScore(i) = InputScore(j)) =>
              /\ deteccao.mad = I(0)
              /\ \A r \in OutRows : ~deteccao.df[r].anormal
              /\ \A i \in FiniteInputs : deteccao.limite_superior = InputScore(i)

\* C6 witness: the MAD is 0, the scores differ and one lies above the median,
\* under the default multiplier
C6_Witness ==
    /\ Detected /\ deteccao.df # <<>> /\ deteccao.mad = I(0)
    /\ sigma_threshold = I(DefaultSigma)
    /\ \E r \in OutRows : FGt(deteccao.df[r].score_anomaly, deteccao.mediana)

\* C7: an operator whose score cv x autocorr_max_diff is infinite or NaN (every
\* operator of infinite cv among them) is absent from the returned table and
\* from the median and the MAD; every operator of finite score is returned
C7_InvalidScoresExcluded ==
    Detected =>
        /\ Len(deteccao.df) = Cardinality(FiniteInputs)
        /\ {deteccao.df[r].CD_OPR : r \in OutRows} = {df_entrada[i].CD_OPR : i \in FiniteInputs}
        /\ \A r \in OutRows : IsFinite(deteccao.df[r].score_anomaly)
        /\ \A i \in 1..Len(df_entrada) :
              df_entrada[i].cv = Inf =>
                  \A r \in OutRows : deteccao.df[r].CD_OPR # df_entrada[i].CD_OPR
        /\ FiniteInputs # {} =>
              /\ deteccao.mediana = Median(FiniteScores)
              /\ deteccao.mad = CalculaMad(FiniteScores)

\* C7 witness: an operator of NaN score, one of infinite score and one of finite
\* score go in, the one of finite score comes out
C7_Witness ==
    /\ Detected /\ Len(deteccao.df) = 1
    /\ \E i \in 1..Len(df_entrada) : IsNaN(InputScore(i)) /\ df_entrada[i].cv = Inf
    /\ \E i \in 1..Len(df_entrada) : IsInf(InputScore(i))

\* C8: the returned table is in descending order of score
C8_SortedDescending ==
    Detected =>
        \A r \in OutRows :
            r < Len(deteccao.df) =>
                FGe(deteccao.df[r].score_anomaly, deteccao.df[r + 1].score_anomaly)

\* C8 witness: three records of distinct scores that went in in another order
C8_Witness ==
    /\ Detected /\ Len(deteccao.df) >= 3
    /\ FGt(deteccao.df[1].score_anomaly, deteccao.df[2].score_anomaly)
    /\ FGt(deteccao.df[2].score_anomaly, deteccao.df[3].score_anomaly)
    /\ FGt(InputScore(2), InputScore(1))


(***************************************************************************)
(* Properties of the metric functions.                                     *)
(***************************************************************************)
RECURSIVE SumInts(_)
SumInts(s) == IF s = <<>> THEN 0 ELSE SumInts(SubSeq(s, 1, Len(s) - 1)) + s[Len(s)]

SerieSum == SumInts(serie)
SerieSumSquares == SumInts([i \in 1..Len(serie) |-> serie[i] * serie[i]])

\* the variance of the series in closed form: (n * sum x^2 - (sum x)^2) / n^2
SerieVariance ==
    Frac(Len(serie) * SerieSumSquares - SerieSum * SerieSum, Len(serie) * Len(serie))

\* C9: calcula_cv returns +infinity when the mean is 0, exactly 0 for a constant
\* non-zero series, and otherwise (stddev / mean) x 100: undoing the division,
\* cv x mean / 100 is the square root of the variance to within 1 / SqrtScale
C9_CvSentinelAndValue ==
    (pc = "measured" /\ Len(serie) > 0) =>
        /\ SerieSum = 0 => cv = Inf
        /\ (serie[1] # 0 /\ \A i \in 1..Len(serie) : serie[i] = serie[1]) => cv = I(0)
        /\ SerieSum # 0 =>
              LET std == FDiv(FMul(cv, Frac(SerieSum, Len(serie))), I(100))
                  next == FAdd(std, Frac(1, SqrtScale))
              IN /\ IsFinite(cv)
                 /\ FGe(std, I(0))
                 /\ FGe(SerieVariance, FMul(std, std))
                 /\ FGt(FMul(next, next), SerieVariance)

\* C9 witness: a series of negative mean whose standard deviation is irrational
C9_Witness ==
    /\ pc = "measured" /\ Len(serie) >= 3
    /\ SerieSum < 0
    /\ IsFinite(cv) /\ cv.n < 0
    /\ FGt(SerieVariance, FMul(FDiv(FMul(cv, Frac(SerieSum, Len(serie))), I(100)),
                               FDiv(FMul(cv, Frac(SerieSum, Len(serie))), I(100))))

\* the series is linear: its first difference is constant
SerieLinear == \A i \in 1..Len(serie) : i + 2 <= Len(serie) =>
                    serie[i + 2] - serie[i + 1] = serie[i + 1] - serie[i]

\* C10: calcula_autocorr_diff returns (0, 0) for a series of length 0 or 1, for
\* one whose first difference has fewer than 2 elements and for one whose first
\* difference is constant, for any nlags
C10_AutocorrDegenerate ==
    (pc # "autocorr" /\ (Len(serie) <= 2 \/ SerieLinear)) =>
        (autocorr.max = I(0) /\ autocorr.lag = 0)

\* C10 witness: a strictly increasing linear series of 4 points, lags requested
C10_Witness ==
    /\ pc = "cv" /\ Len(serie) >= 4 /\ nlags >= 1
    /\ SerieLinear /\ serie[2] > serie[1]
    /\ autocorr = NoAutocorr

(***************************************************************************)
(* Properties of calcular_metricas_por_processo.                           *)
(***************************************************************************)
Measured == pc \in {"detectar", "returned"} /\ metricas.status \in {"ok", "empty"}

\* the counts of one operator in the dense grid, in grid order
GridSerie(op) ==
    LET IsOp(r) == r.CD_OPR = op
        g == SelectSeq(dados.rows, IsOp)
    IN [i \in 1..Len(g) |-> g[i].QTD]

GridLinear(op) ==
    LET g == GridSerie(op)
    IN \A i \in 1..Len(g) : i + 2 <= Len(g) => g[i + 2] - g[i + 1] = g[i + 1] - g[i]

GridOps == {dados.rows[i].CD_OPR : i \in 1..Len(dados.rows)}

\* C11 as stated: every metric record has autocorr_lag >= 1 and cv >= 0 or
\* +infinity
C11_LagAtLeastOneCvNonNegative ==
    Measured =>
        \A r \in 1..Len(metricas.rows) :
            /\ metricas.rows[r].autocorr_lag >= 1
            /\ (metricas.rows[r].cv = Inf \/ FGe(metricas.rows[r].cv, I(0)))

\* C11 amended: there is one record per operator with at least MinLen
\* observations; its autocorr_lag is 0 when the first difference of the series
\* is constant and at least 1 (and at most the number of lags) otherwise; its
\* cv is +infinity when the counts sum to 0 and otherwise finite with the sign
\* of the sum
C11_LagAndCvRanges ==
    Measured =>
        /\ {metricas.rows[r].CD_OPR : r \in 1..Len(metricas.rows)} =
               {op \in GridOps : Len(GridSerie(op)) >= MinLen}
        /\ \A r, q \in 1..Len(metricas.rows) :
               metricas.rows[r].CD_OPR = metricas.rows[q].CD_OPR => r = q
        /\ \A r \in 1..Len(metricas.rows) :
               LET rec == metricas.rows[r]
                   g == GridSerie(rec.CD_OPR)
                   total == SumInts(g)
               IN /\ IF GridLinear(rec.CD_OPR)
                     THEN rec.autocorr_lag = 0 /\ rec.autocorr_max_diff = I(0)
                     ELSE rec.autocorr_lag >= 1 /\ rec.autocorr_lag <= Len(g) - 2
                  /\ total = 0 => rec.cv = Inf
                  /\ total > 0 => IsFinite(rec.cv) /\ rec.cv.n >= 0
                  /\ total < 0 => IsFinite(rec.cv) /\ rec.cv.n <= 0

\* C11 witness: one table with a record of lag 0 and infinite cv, and a record
\* of lag at least 1
C11_Witness ==
    /\ Measured
    /\ \E r \in 1..Len(metricas.rows) :
           metricas.rows[r].autocorr_lag = 0 /\ metricas.rows[r].cv = Inf
    /\ \E r \in 1..Len(metricas.rows) : metricas.rows[r].autocorr_lag >= 1

(***************************************************************************)
(* Properties of the stages on empty input.                                *)
(***************************************************************************)
\* no line of the file passes the prefix filter and the field check
NoValidLines == DataLines = {}

\* the empty result of the detector: no row and not-a-number statistics
EmptyDetection == [df |-> <<>>, mediana |-> NaN, mad |-> NaN, limite_superior |-> NaN]

\* C12: empty input is not an error at any stage: extrair_dados returns the
\* empty table for a file without valid lines, and on the empty table
\* calcular_metricas_por_processo returns the empty table and
\* detectar_anomalias the empty result with not-a-number statistics; none
\* raises
C12_EmptyInputNeverRaises ==
    /\ (pc # "extrair" /\ NoValidLines) => dados = EmptyFrame
    /\ (pc \notin {"extrair", "metricas"} /\ dados = EmptyFrame) => metricas = EmptyFrame
    /\ (pc = "returned" /\ metricas = EmptyFrame) => deteccao = EmptyDetection

(***************************************************************************)
(* Properties of main.                                                     *)
(***************************************************************************)
IsPrefix(s, t) == Len(s) <= Len(t) /\ \A i \in 1..Len(s) : s[i] = t[i]

\* the operators that pass the minimum-length filter
PassedMinLen == {op \in GridOps : Len(GridSerie(op)) >= MinLen}

\* the operators whose score, cv * autocorr_max_diff, is a finite number
PassedScore ==
    {metricas.rows[r].CD_OPR : r \in {q \in 1..Len(metricas.rows) :
        IsFinite(FMul(metricas.rows[q].cv, metricas.rows[q].autocorr_max_diff))}}

\* C13: the stages of main execute in the order load, plot, metrics,
\* detection, save; after an empty load, an empty metric table or a detection
\* with no valid score no later stage executes; the output table is written
\* at most once, only after load, metrics and detection all returned
\* non-empty results, and its rows are exactly the operators that passed the
\* minimum-length filter and the invalid-score filter
C13_StagesInOrderWrittenOnce ==
    /\ IsPrefix(etapas, Etapas)
    /\ (Len(etapas) >= 1 /\ dados.status # "ok") => etapas = SubSeq(Etapas, 1, 1)
    /\ (Len(etapas) >= 3 /\ metricas.status # "ok") => etapas = SubSeq(Etapas, 1, 3)
    /\ (Len(etapas) >= 4 /\ deteccao.df = <<>>) => etapas = SubSeq(Etapas, 1, 4)
    /\ Len(saida) <= 1
    /\ Len(saida) = 1 =>
           /\ etapas = Etapas
           /\ dados.status = "ok" /\ dados.rows # <<>>
           /\ metricas.status = "ok" /\ metricas.rows # <<>>
           /\ deteccao.df # <<>>
           /\ {saida[1][i].CD_OPR : i \in 1..Len(saida[1])} = PassedMinLen \cap PassedScore
           /\ Len(saida[1]) = Cardinality(PassedMinLen \cap PassedScore)

\* C13 witness: a finished run that wrote the table, one operator having been
\* dropped for its invalid score
C13_Witness ==
    /\ pc = "done"
    /\ etapas = Etapas
    /\ Len(saida) = 1
    /\ Len(saida[1]) >= 1
    /\ Len(saida[1]) < Len(metricas.rows)

====
